---- MODULE Spec2Model ----
(***************************************************************************)
(* State-machine model of Irrigation_System_1.0.ino: setup() runs once,    *)
(* then loop() repeats.  One action per statement group of the sketch; pc  *)
(* names the statement about to execute.  `calls' records, in order, the   *)
(* peripheral calls made since boot (during setup) or since the start of   *)
(* the current loop() invocation.                                          *)
(***************************************************************************)
EXTENDS Integers, Sequences, FiniteSets, TLC

VARIABLES
    pc,          \* statement about to execute
    relay1,      \* level on relayOutputPin1: "Z" (not yet an output), "LOW", "HIGH"
    relay2,      \* level on relayOutputPin2
    led,         \* level on LED_BUILTIN
    lowPower,    \* LowPower.begin() done
    cardOk,      \* result of the last SD.begin(): "unknown", "ok", "failed"
    rtcFound,    \* result of rtc.begin(): "unknown", "yes", "no"
    logFile,     \* the File returned for log.csv is open (tests true)
    dataFile,    \* the File returned for datalog.csv is open (tests true)
    now,         \* loop(): DateTime now, or NoTime
    timeStamp,   \* loop(): String timeStamp
    sensorData,  \* loop(): int sensorData
    moisture,    \* loop(): int moisture
    temp,        \* loop(): int temp
    fileLine,    \* loop(): String fileLine
    logCsv,      \* lines of log.csv
    datalogCsv,  \* lines of datalog.csv
    calls,       \* peripheral calls since boot / since loop() was entered
    shutdowns,   \* LowPower.shutdown() calls made in the halt loop
    overrunKept  \* this build keeps the bytes sprintf writes past tempString

vars == <<pc, relay1, relay2, led, lowPower, cardOk, rtcFound, logFile, dataFile,
          now, timeStamp, sensorData, moisture, temp, fileLine, logCsv,
          datalogCsv, calls, shutdowns, overrunKept>>

(***************************************************************************)
(* Bounds of the model.                                                    *)
(***************************************************************************)
MaxLines == 2
MaxShutdowns == 2
\* largest raw reading applied to map() on its own
RawMax == 1100

(***************************************************************************)
(* Program constants.                                                      *)
(***************************************************************************)
moistureValue == 20
irrigationTimeStart == 19
irrigationTimeStop == 7
MinYear == 2010
MaxYear == 2100
MapInMin == 1024
MapInMax == 467
MapOutMin == 0
MapOutMax == 100
TempStringSize == 18

NoTime == [year |-> 0, month |-> 0, day |-> 0, hour |-> 0, minute |-> 0, second |-> 0]
NoInt == -1000000

DT(y, mo, d, h, mi, s) ==
    [year |-> y, month |-> mo, day |-> d, hour |-> h, minute |-> mi, second |-> s]

\* Values rtc.now() may return.
ClockReadings ==
    { DT(2009, 12, 31, 19, 59, 59),
      DT(2010, 1, 1, 7, 0, 0),
      DT(2021, 3, 9, 8, 5, 3),
      DT(2021, 3, 9, 19, 5, 3),
      DT(2100, 12, 31, 18, 30, 0),
      DT(2101, 1, 1, 0, 0, 0) }

\* Values analogRead(moistureSensorPin) may return.
SensorReadings == {467, 912, 913}

\* Values rtc.getTemperature() may return, converted to int.
TempReadings == {21}

(***************************************************************************)
(* Text conversion: String(int) and the sprintf conversions %04d, %02d.    *)
(***************************************************************************)
Digit(d) ==
    CASE d = 0 -> "0" [] d = 1 -> "1" [] d = 2 -> "2" [] d = 3 -> "3"
      [] d = 4 -> "4" [] d = 5 -> "5" [] d = 6 -> "6" [] d = 7 -> "7"
      [] d = 8 -> "8" [] d = 9 -> "9"

RECURSIVE NatToStr(_)
NatToStr(n) == IF n < 10 THEN Digit(n) ELSE NatToStr(n \div 10) \o Digit(n % 10)

IntToStr(n) == IF n < 0 THEN "-" \o NatToStr(0 - n) ELSE NatToStr(n)

RECURSIVE ZeroPad(_, _)
ZeroPad(s, w) == IF Len(s) >= w THEN s ELSE ZeroPad("0" \o s, w)

\* %0<w>d for a non-negative argument
FmtD(n, w) == ZeroPad(NatToStr(n), w)

\* The characters sprintf produces for "%04d-%02d-%02dT%02d:%02d:%02d".
FormatTime(time) ==
    FmtD(time.year, 4) \o "-" \o FmtD(time.month, 2) \o "-" \o FmtD(time.day, 2)
      \o "T" \o FmtD(time.hour, 2) \o ":" \o FmtD(time.minute, 2) \o ":"
      \o FmtD(time.second, 2)

\* get_time_stamp: the text is written into char tempString[18].  Text plus
\* terminator beyond the array lands outside the object; a build either keeps
\* those bytes or loses them.
get_time_stamp(time) ==
    LET text == FormatTime(time)
    IN  IF Len(text) + 1 <= TempStringSize \/ overrunKept
        THEN text
        ELSE SubSeq(text, 1, TempStringSize - 1)

(***************************************************************************)
(* Arduino map(): integer arithmetic, division truncating toward zero.     *)
(***************************************************************************)
CDiv(a, b) ==
    LET absA == IF a < 0 THEN 0 - a ELSE a
        absB == IF b < 0 THEN 0 - b ELSE b
        q == absA \div absB
    IN  IF (a < 0) = (b < 0) THEN q ELSE 0 - q

\* variant: the result constrained to the output range
Mut_map(x, in_min, in_max, out_min, out_max) ==
    LET v == CDiv((x - in_min) * (out_max - out_min), in_max - in_min) + out_min
    IN  IF v < out_min THEN out_min ELSE IF v > out_max THEN out_max ELSE v

map(x, in_min, in_max, out_min, out_max) ==
    CDiv((x - in_min) * (out_max - out_min), in_max - in_min) + out_min

\* variant: the bounds themselves rejected
Mut_YearImplausible(t) == t.year <= MinYear \/ t.year >= MaxYear

\* line 162: the year test that sends loop() to the halt
YearImplausible(t) == t.year < MinYear \/ t.year > MaxYear

\* variant: moisture compared with <= instead of <
Mut_IrrigationDue(m, t) ==
    m <= moistureValue /\ (t.hour >= irrigationTimeStart \/ t.hour <= irrigationTimeStop)

\* line 204: the irrigation condition
IrrigationDue(m, t) ==
    m < moistureValue /\ (t.hour >= irrigationTimeStart \/ t.hour <= irrigationTimeStop)

Call(c) == calls' = Append(calls, c)

\* What SD.open(name, FILE_WRITE) may return: an open File only on a volume
\* the last SD.begin() initialized, a File that tests false at any time.
OpenResults == IF cardOk = "ok" THEN BOOLEAN ELSE {FALSE}

Init ==
    /\ pc = "s_relay1"
    /\ relay1 = "Z" /\ relay2 = "Z" /\ led = "Z"
    /\ lowPower = FALSE
    /\ cardOk = "unknown"
    /\ rtcFound = "unknown"
    /\ logFile = FALSE /\ dataFile = FALSE
    /\ now = NoTime /\ timeStamp = "" /\ fileLine = ""
    /\ sensorData = NoInt /\ moisture = NoInt /\ temp = NoInt
    /\ logCsv = <<>> /\ datalogCsv = <<>>
    /\ calls = <<>>
    /\ shutdowns = 0
    /\ overrunKept \in BOOLEAN


pins == <<relay1, relay2, led>>
handles == <<logFile, dataFile>>
locals == <<now, timeStamp, sensorData, moisture, temp, fileLine>>
streams == <<logCsv, datalogCsv>>
boot == <<lowPower, cardOk, rtcFound>>
counters == <<shutdowns, overrunKept>>

(***************************************************************************)
(* setup()                                                                 *)
(***************************************************************************)
\* lines 81-82
SetupRelay1 ==
    /\ pc = "s_relay1"
    /\ relay1' = "LOW"
    /\ Call("digitalWrite(relayOutputPin1, LOW)")
    /\ pc' = "s_relay2"
    /\ UNCHANGED <<relay2, led, handles, locals, streams, boot, counters>>

\* variant: LowPower.begin() placed above the write to the second relay pin
Mut_SetupRelay2 ==
    /\ pc = "s_relay2"
    /\ lowPower' = TRUE
    /\ relay2' = "LOW"
    /\ calls' = calls \o <<"LowPower.begin", "digitalWrite(relayOutputPin2, LOW)">>
    /\ pc' = "s_spi"
    /\ UNCHANGED <<relay1, led, handles, locals, streams, cardOk, rtcFound, counters>>

\* lines 84-85
SetupRelay2 ==
    /\ pc = "s_relay2"
    /\ relay2' = "LOW"
    /\ Call("digitalWrite(relayOutputPin2, LOW)")
    /\ pc' = "s_lowpower"
    /\ UNCHANGED <<relay1, led, handles, locals, streams, boot, counters>>

\* line 88
SetupLowPower ==
    /\ pc = "s_lowpower"
    /\ lowPower' = TRUE
    /\ Call("LowPower.begin")
    /\ pc' = "s_spi"
    /\ UNCHANGED <<pins, handles, locals, streams, cardOk, rtcFound, counters>>

\* lines 91-101: chip select, SPI pin assignment, Serial.begin, delay
SetupSpi ==
    /\ pc = "s_spi"
    /\ Call("SPI.setPins")
    /\ pc' = "s_sdbegin"
    /\ UNCHANGED <<pins, handles, locals, streams, boot, counters>>

\* lines 104-112: a failed SD.begin is only reported on Serial
SetupSdBegin ==
    /\ pc = "s_sdbegin"
    /\ \E ok \in BOOLEAN : cardOk' = IF ok THEN "ok" ELSE "failed"
    /\ Call("SD.begin")
    /\ pc' = "s_open"
    /\ UNCHANGED <<pins, handles, locals, streams, lowPower, rtcFound, counters>>

\* line 115
SetupOpenLog ==
    /\ pc = "s_open"
    /\ \E ok \in OpenResults :
          /\ logFile' = ok
          /\ Call(IF ok THEN "SD.open(log.csv)" ELSE "SD.open(log.csv) failed")
    /\ pc' = "s_rtcbegin"
    /\ UNCHANGED <<pins, dataFile, locals, streams, boot, counters>>

\* variant: the result of rtc.begin() ignored, setup() carries on
Mut_SetupRtcBegin ==
    /\ pc = "s_rtcbegin"
    /\ \E found \in BOOLEAN : rtcFound' = IF found THEN "yes" ELSE "no"
    /\ pc' = "s_pins"
    /\ Call("rtc.begin")
    /\ UNCHANGED <<pins, handles, locals, streams, lowPower, cardOk, counters>>

\* lines 117-119
SetupRtcBegin ==
    /\ pc = "s_rtcbegin"
    /\ \E found \in BOOLEAN :
          /\ rtcFound' = IF found THEN "yes" ELSE "no"
          /\ pc' = IF found THEN "s_pins" ELSE "s_rtcfail"
    /\ Call("rtc.begin")
    /\ UNCHANGED <<pins, handles, locals, streams, lowPower, cardOk, counters>>

\* lines 120-130: the fault line is written only through an open File;
\* the File is not closed
SetupRtcFail ==
    /\ pc = "s_rtcfail"
    /\ IF logFile
       THEN /\ logCsv' = Append(logCsv, "Could not find RTC. Shutting down.")
            /\ Call("logFile.println")
       ELSE UNCHANGED <<logCsv, calls>>
    /\ pc' = "halt"
    /\ UNCHANGED <<pins, handles, locals, datalogCsv, boot, counters>>

\* lines 138-140
SetupPins ==
    /\ pc = "s_pins"
    /\ Call("pinMode(LED_BUILTIN, moistureSensorPin)")
    /\ pc' = "s_complete"
    /\ UNCHANGED <<pins, handles, locals, streams, boot, counters>>

\* line 142: println on a File that failed to open writes nothing
SetupComplete ==
    /\ pc = "s_complete"
    /\ \E t \in ClockReadings :
          logCsv' = IF logFile
                    THEN Append(logCsv, " Setup complete! " \o get_time_stamp(t))
                    ELSE logCsv
    /\ calls' = calls \o <<"rtc.now", "logFile.println">>
    /\ pc' = "s_close"
    /\ UNCHANGED <<pins, handles, locals, datalogCsv, boot, counters>>

\* line 143; setup() returns and loop() is entered
SetupClose ==
    /\ pc = "s_close"
    /\ logFile' = FALSE
    /\ Call("logFile.close")
    /\ pc' = "l_sdbegin"
    /\ UNCHANGED <<pins, dataFile, locals, streams, boot, counters>>

\* variant: a single shutdown call without the enclosing while(1)
Mut_Halt ==
    /\ pc = "halt"
    /\ shutdowns < MaxShutdowns
    /\ shutdowns' = shutdowns + 1
    /\ pc' = "l_sdbegin"
    /\ UNCHANGED <<pins, handles, locals, streams, boot, calls, overrunKept>>

\* lines 131-133 and 169-171: while(1) LowPower.shutdown(3000000)
Halt ==
    /\ pc = "halt"
    /\ shutdowns < MaxShutdowns
    /\ shutdowns' = shutdowns + 1
    /\ pc' = "halt"
    /\ UNCHANGED <<pins, handles, locals, streams, boot, calls, overrunKept>>

(***************************************************************************)
(* loop()                                                                  *)
(***************************************************************************)
\* lines 149-151: a failed SD.begin is only reported on Serial
LoopSdBegin ==
    /\ pc = "l_sdbegin"
    /\ \E ok \in BOOLEAN : cardOk' = IF ok THEN "ok" ELSE "failed"
    /\ calls' = <<"SD.begin">>
    /\ pc' = "l_led"
    /\ UNCHANGED <<pins, handles, locals, streams, lowPower, rtcFound, counters>>

\* lines 155-156
LoopLed ==
    /\ pc = "l_led"
    /\ led' = "LOW"
    /\ fileLine' = ""
    /\ Call("digitalWrite(LED_BUILTIN, LOW)")
    /\ pc' = "l_now"
    /\ UNCHANGED <<relay1, relay2, handles, now, timeStamp, sensorData, moisture,
                   temp, streams, boot, counters>>

\* lines 157-158
LoopNow ==
    /\ pc = "l_now"
    /\ \E t \in ClockReadings :
          /\ now' = t
          /\ timeStamp' = get_time_stamp(t)
    /\ Call("rtc.now")
    /\ pc' = "l_check"
    /\ UNCHANGED <<pins, handles, sensorData, moisture, temp, fileLine, streams,
                   boot, counters>>

\* line 162
LoopCheckYear ==
    /\ pc = "l_check"
    /\ pc' = IF YearImplausible(now) THEN "l_fault_open" ELSE "l_sample"
    /\ UNCHANGED <<pins, handles, locals, streams, boot, calls, counters>>

\* lines 163-164
LoopFaultOpen ==
    /\ pc = "l_fault_open"
    /\ \E ok \in OpenResults :
          /\ logFile' = ok
          /\ Call(IF ok THEN "SD.open(log.csv)" ELSE "SD.open(log.csv) failed")
    /\ pc' = "l_fault_write"
    /\ UNCHANGED <<pins, dataFile, locals, streams, boot, counters>>

\* line 165: println is called without testing the File
LoopFaultWrite ==
    /\ pc = "l_fault_write"
    /\ logCsv' = IF logFile
                 THEN Append(logCsv,
                        "There was an error with the RTC. Reset device to retry. Shutting down...")
                 ELSE logCsv
    /\ Call("logFile.println")
    /\ pc' = "l_fault_led"
    /\ UNCHANGED <<pins, handles, locals, datalogCsv, boot, counters>>

\* line 166
LoopFaultLed ==
    /\ pc = "l_fault_led"
    /\ led' = "HIGH"
    /\ Call("digitalWrite(LED_BUILTIN, HIGH)")
    /\ pc' = "l_fault_close"
    /\ UNCHANGED <<relay1, relay2, handles, locals, streams, boot, counters>>

\* lines 167-168
LoopFaultClose ==
    /\ pc = "l_fault_close"
    /\ logFile' = FALSE
    /\ Call("logFile.close")
    /\ pc' = "halt"
    /\ UNCHANGED <<pins, dataFile, locals, streams, boot, counters>>

\* lines 174-178
LoopSample ==
    /\ pc = "l_sample"
    /\ \E r \in SensorReadings :
          /\ sensorData' = r
          /\ moisture' = map(r, MapInMin, MapInMax, MapOutMin, MapOutMax)
    /\ Call("analogRead")
    /\ pc' = "l_temp"
    /\ UNCHANGED <<pins, handles, now, timeStamp, temp, fileLine, streams, boot,
                   counters>>

\* lines 181-182
LoopTemp ==
    /\ pc = "l_temp"
    /\ \E c \in TempReadings :
          /\ temp' = c
          /\ fileLine' = timeStamp \o ", " \o IntToStr(moisture) \o "("
                           \o IntToStr(sensorData) \o ")" \o ", " \o IntToStr(c)
    /\ Call("rtc.getTemperature")
    /\ pc' = "l_data_open"
    /\ UNCHANGED <<pins, handles, now, timeStamp, sensorData, moisture, streams,
                   boot, counters>>

\* variant: a failed open of datalog.csv tried a second time
Mut_LoopDataOpen ==
    /\ pc = "l_data_open"
    /\ \E first \in OpenResults, second \in OpenResults :
          /\ dataFile' = (first \/ second)
          /\ calls' = IF first
                      THEN Append(calls, "SD.open(datalog.csv)")
                      ELSE calls \o <<"SD.open(datalog.csv) failed",
                                      IF second THEN "SD.open(datalog.csv)"
                                      ELSE "SD.open(datalog.csv) failed">>
    /\ pc' = "l_data_write"
    /\ UNCHANGED <<pins, logFile, locals, streams, boot, counters>>

\* line 186
LoopDataOpen ==
    /\ pc = "l_data_open"
    /\ \E ok \in OpenResults :
          /\ dataFile' = ok
          /\ Call(IF ok THEN "SD.open(datalog.csv)" ELSE "SD.open(datalog.csv) failed")
    /\ pc' = "l_data_write"
    /\ UNCHANGED <<pins, logFile, locals, streams, boot, counters>>

\* variant: a failed open of datalog.csv treated as fatal
Mut_LoopDataWrite ==
    /\ pc = "l_data_write"
    /\ IF dataFile
       THEN /\ datalogCsv' = Append(datalogCsv, fileLine)
            /\ dataFile' = FALSE
            /\ calls' = calls \o <<"dataFile.println", "dataFile.close">>
            /\ pc' = "l_eval"
       ELSE /\ pc' = "halt"
            /\ UNCHANGED <<datalogCsv, dataFile, calls>>
    /\ UNCHANGED <<pins, logFile, locals, logCsv, boot, counters>>

\* variant: datalog.csv opened for writing from the start of the file
Mut_LoopDataWriteTruncating ==
    /\ pc = "l_data_write"
    /\ IF dataFile
       THEN /\ datalogCsv' = <<fileLine>>
            /\ dataFile' = FALSE
            /\ calls' = calls \o <<"dataFile.println", "dataFile.close">>
       ELSE UNCHANGED <<datalogCsv, dataFile, calls>>
    /\ pc' = "l_eval"
    /\ UNCHANGED <<pins, logFile, locals, logCsv, boot, counters>>

\* lines 189-199
LoopDataWrite ==
    /\ pc = "l_data_write"
    /\ IF dataFile
       THEN /\ datalogCsv' = Append(datalogCsv, fileLine)
            /\ dataFile' = FALSE
            /\ calls' = calls \o <<"dataFile.println", "dataFile.close">>
       ELSE UNCHANGED <<datalogCsv, dataFile, calls>>
    /\ pc' = "l_eval"
    /\ UNCHANGED <<pins, logFile, locals, logCsv, boot, counters>>

\* line 204
LoopEval ==
    /\ pc = "l_eval"
    /\ pc' = IF IrrigationDue(moisture, now) THEN "l_log_open" ELSE "l_sleep"
    /\ UNCHANGED <<pins, handles, locals, streams, boot, calls, counters>>

\* line 205
LoopLogOpen ==
    /\ pc = "l_log_open"
    /\ \E ok \in OpenResults :
          /\ logFile' = ok
          /\ Call(IF ok THEN "SD.open(log.csv)" ELSE "SD.open(log.csv) failed")
    /\ pc' = "l_log_on"
    /\ UNCHANGED <<pins, dataFile, locals, streams, boot, counters>>

\* variant: the relay writes placed inside if(logFile)
Mut_LoopValveOnLog ==
    /\ pc = "l_log_on"
    /\ IF logFile
       THEN /\ logCsv' = Append(logCsv, timeStamp \o " Valve on")
            /\ Call("logFile.println")
            /\ pc' = "l_relay1_on"
       ELSE /\ pc' = "l_log_off"
            /\ UNCHANGED <<logCsv, calls>>
    /\ UNCHANGED <<pins, handles, locals, datalogCsv, boot, counters>>

\* lines 208-211
LoopValveOnLog ==
    /\ pc = "l_log_on"
    /\ IF logFile
       THEN /\ logCsv' = Append(logCsv, timeStamp \o " Valve on")
            /\ Call("logFile.println")
       ELSE UNCHANGED <<logCsv, calls>>
    /\ pc' = "l_relay1_on"
    /\ UNCHANGED <<pins, handles, locals, datalogCsv, boot, counters>>

\* line 212
LoopRelay1On ==
    /\ pc = "l_relay1_on"
    /\ relay1' = "HIGH"
    /\ Call("digitalWrite(relayOutputPin1, HIGH)")
    /\ pc' = "l_relay2_on"
    /\ UNCHANGED <<relay2, led, handles, locals, streams, boot, counters>>

\* variant: the write to the second relay pin left out
Mut_LoopRelay2On ==
    /\ pc = "l_relay2_on"
    /\ pc' = "l_hold"
    /\ UNCHANGED <<pins, handles, locals, streams, boot, calls, counters>>

\* line 213
LoopRelay2On ==
    /\ pc = "l_relay2_on"
    /\ relay2' = "HIGH"
    /\ Call("digitalWrite(relayOutputPin2, HIGH)")
    /\ pc' = "l_hold"
    /\ UNCHANGED <<relay1, led, handles, locals, streams, boot, counters>>

\* variant: the hold followed by the closing log entry, the outputs left as
\* they are
Mut_LoopHold ==
    /\ pc = "l_hold"
    /\ Call("delay(valveOnTimer)")
    /\ pc' = "l_log_off"
    /\ UNCHANGED <<pins, handles, locals, streams, boot, counters>>

\* line 215
LoopHold ==
    /\ pc = "l_hold"
    /\ Call("delay(valveOnTimer)")
    /\ pc' = "l_relay1_off"
    /\ UNCHANGED <<pins, handles, locals, streams, boot, counters>>

\* line 216
LoopRelay1Off ==
    /\ pc = "l_relay1_off"
    /\ relay1' = "LOW"
    /\ Call("digitalWrite(relayOutputPin1, LOW)")
    /\ pc' = "l_relay2_off"
    /\ UNCHANGED <<relay2, led, handles, locals, streams, boot, counters>>

\* variant: the second relay pin not returned to LOW after the hold
Mut_LoopRelay2Off ==
    /\ pc = "l_relay2_off"
    /\ pc' = "l_log_off"
    /\ UNCHANGED <<pins, handles, locals, streams, boot, calls, counters>>

\* line 217
LoopRelay2Off ==
    /\ pc = "l_relay2_off"
    /\ relay2' = "LOW"
    /\ Call("digitalWrite(relayOutputPin2, LOW)")
    /\ pc' = "l_log_off"
    /\ UNCHANGED <<relay1, led, handles, locals, streams, boot, counters>>

\* variant: the closing entry written through a handle opened anew
Mut_LoopValveOffLog ==
    /\ pc = "l_log_off"
    /\ \E ok \in OpenResults :
          IF ok
          THEN /\ \E t \in ClockReadings :
                     logCsv' = Append(logCsv, get_time_stamp(t) \o " Valve off")
               /\ calls' = calls \o <<"rtc.now", "rtc.now", "logFile.println",
                                      "logFile.close">>
          ELSE /\ Call("rtc.now")
               /\ UNCHANGED logCsv
    /\ logFile' = FALSE
    /\ pc' = "l_sleep"
    /\ UNCHANGED <<pins, dataFile, locals, datalogCsv, boot, counters>>

\* lines 219-224: rtc.now() is read for Serial, and again for the log line
\* when the File is open
LoopValveOffLog ==
    /\ pc = "l_log_off"
    /\ IF logFile
       THEN /\ \E t \in ClockReadings :
                  logCsv' = Append(logCsv, get_time_stamp(t) \o " Valve off")
            /\ logFile' = FALSE
            /\ calls' = calls \o <<"rtc.now", "rtc.now", "logFile.println",
                                   "logFile.close">>
       ELSE /\ Call("rtc.now")
            /\ UNCHANGED <<logCsv, logFile>>
    /\ pc' = "l_sleep"
    /\ UNCHANGED <<pins, dataFile, locals, datalogCsv, boot, counters>>

\* lines 226-231: the controller sleeps in LowPower.deepSleep(sleepTime); on
\* wake-up loop() returns, its locals end, and it is entered again.
\* The run is followed while the two streams hold fewer than MaxLines lines.
LoopSleep ==
    /\ pc = "l_sleep"
    /\ Len(logCsv) + Len(datalogCsv) < MaxLines
    /\ Call("LowPower.deepSleep")
    /\ now' = NoTime /\ timeStamp' = "" /\ fileLine' = ""
    /\ sensorData' = NoInt /\ moisture' = NoInt /\ temp' = NoInt
    /\ pc' = "l_sdbegin"
    /\ UNCHANGED <<pins, handles, streams, boot, counters>>

Next ==
    \/ SetupRelay1 \/ SetupRelay2 \/ SetupLowPower \/ SetupSpi \/ SetupSdBegin
    \/ SetupOpenLog \/ SetupRtcBegin \/ SetupRtcFail \/ SetupPins
    \/ SetupComplete \/ SetupClose \/ Halt
    \/ LoopSdBegin \/ LoopLed \/ LoopNow \/ LoopCheckYear
    \/ LoopFaultOpen \/ LoopFaultWrite \/ LoopFaultLed \/ LoopFaultClose
    \/ LoopSample \/ LoopTemp \/ LoopDataOpen \/ LoopDataWrite \/ LoopEval
    \/ LoopLogOpen \/ LoopValveOnLog \/ LoopRelay1On \/ LoopRelay2On \/ LoopHold
    \/ LoopRelay1Off \/ LoopRelay2Off \/ LoopValveOffLog \/ LoopSleep

Spec == Init /\ [][Next]_vars

\* loop() and setup() run sequentially to completion: every enabled step is
\* eventually taken.
FairSpec == Spec /\ WF_vars(Next)

(***************************************************************************)
(* Vocabulary of the properties.                                           *)
(***************************************************************************)
Has(c) == \E i \in 1..Len(calls) : calls[i] = c

\* The level written with the "Valve on" event (lines 209-213) is the
\* energized level; the level written at boot and after the hold is the
\* de-energized one.
Energized == "HIGH"
DeEnergized == "LOW"

SetupPcs == {"s_relay1", "s_relay2", "s_lowpower", "s_spi", "s_sdbegin", "s_open",
             "s_rtcbegin", "s_rtcfail", "s_pins", "s_complete", "s_close"}
FaultPcs == {"l_fault_open", "l_fault_write", "l_fault_led", "l_fault_close"}
ValidatedPcs == {"l_sample", "l_temp", "l_data_open", "l_data_write", "l_eval",
                 "l_log_open", "l_log_on", "l_relay1_on", "l_relay2_on", "l_hold",
                 "l_relay1_off", "l_relay2_off", "l_log_off", "l_sleep"}
BootHalt == pc = "halt" /\ rtcFound = "no"
RuntimeHalt == pc = "halt" /\ rtcFound = "yes"
\* the current loop() invocation has run to its sleep or to the halt
CycleOver == pc = "l_sleep" \/ RuntimeHalt

ValveCalls ==
    SelectSeq(calls, LAMBDA c : c \in {"digitalWrite(relayOutputPin1, HIGH)",
                                       "digitalWrite(relayOutputPin2, HIGH)",
                                       "delay(valveOnTimer)",
                                       "digitalWrite(relayOutputPin1, LOW)",
                                       "digitalWrite(relayOutputPin2, LOW)"})
FullActuation ==
    <<"digitalWrite(relayOutputPin1, HIGH)", "digitalWrite(relayOutputPin2, HIGH)",
      "delay(valveOnTimer)", "digitalWrite(relayOutputPin1, LOW)",
      "digitalWrite(relayOutputPin2, LOW)">>

\* the condition as the claims state it, with their numbers
DueAsClaimed == /\ now.year >= 2010 /\ now.year <= 2100
                /\ moisture < 20
                /\ (now.hour >= 19 \/ now.hour <= 7)

C3_ImplausibleYearHalts ==
    /\ (pc \in FaultPcs \/ RuntimeHalt) => (now.year < 2010 \/ now.year > 2100)
    /\ pc \in ValidatedPcs => (now.year >= 2010 /\ now.year <= 2100)
    /\ RuntimeHalt =>
          /\ \E open \in {"SD.open(log.csv)", "SD.open(log.csv) failed"} :
                calls = <<"SD.begin", "digitalWrite(LED_BUILTIN, LOW)", "rtc.now",
                          open, "logFile.println",
                          "digitalWrite(LED_BUILTIN, HIGH)", "logFile.close">>
          /\ Has("SD.open(log.csv)") =>
                /\ Len(logCsv) > 0
                /\ logCsv[Len(logCsv)] =
                     "There was an error with the RTC. Reset device to retry. Shutting down..."
          /\ led = "HIGH"
          /\ sensorData = NoInt /\ moisture = NoInt /\ temp = NoInt
          /\ relay1 = DeEnergized /\ relay2 = DeEnergized

C3_Witness ==
    /\ RuntimeHalt /\ now.year = 2101 /\ led = "HIGH"
    /\ Has("SD.open(log.csv)")

C5_ClockInitFailure ==
    rtcFound = "no" =>
       /\ pc \in {"s_rtcfail", "halt"}
       /\ pc = "halt" =>
             logCsv = IF logFile THEN <<"Could not find RTC. Shutting down.">>
                      ELSE <<>>
       /\ pc = "s_rtcfail" => logCsv = <<>>
       /\ ~Has("rtc.now") /\ ~Has("analogRead") /\ ~Has("rtc.getTemperature")
       /\ now = NoTime /\ sensorData = NoInt /\ moisture = NoInt /\ temp = NoInt
       /\ datalogCsv = <<>>
       /\ relay1 = DeEnergized /\ relay2 = DeEnergized
       /\ ~Has("digitalWrite(relayOutputPin1, HIGH)")
       /\ ~Has("digitalWrite(relayOutputPin2, HIGH)")

C5_Witness ==
    /\ BootHalt /\ logFile /\ shutdowns > 0
    /\ logCsv = <<"Could not find RTC. Shutting down.">>

(***************************************************************************)
(* C6: once halted, every step is a LowPower.shutdown call and nothing     *)
(* else: no pin, File, stream, clock or sensor state changes again.        *)
(***************************************************************************)
C6_HaltIsTerminal ==
    [][pc = "halt" =>
          /\ pc' = "halt"
          /\ shutdowns' = shutdowns + 1
          /\ UNCHANGED <<pins, handles, locals, streams, boot, calls>>]_vars

C6_Witness == RuntimeHalt /\ shutdowns >= 2

(***************************************************************************)
(* C7: a failed open of datalog.csv or of log.csv does not block the       *)
(* actuation: in a validated cycle where the condition is true the valve   *)
(* is still energized, held and de-energized.                              *)
(***************************************************************************)
C7_LoggingNeverBlocksActuation ==
    /\ (pc = "l_sleep" /\ DueAsClaimed
          /\ (Has("SD.open(datalog.csv) failed") \/ Has("SD.open(log.csv) failed"))) =>
          ValveCalls = FullActuation
    /\ (pc = "l_log_off" /\ ~logFile) => ValveCalls = FullActuation

C7_Witness ==
    /\ pc = "l_sleep" /\ ValveCalls = FullActuation
    /\ Has("SD.open(datalog.csv) failed") /\ Has("SD.open(log.csv) failed")
    /\ datalogCsv = <<>>

(***************************************************************************)
(* C8: storage faults alone never halt the controller, every cycle that    *)
(* starts reaches its sleep unless the clock is at fault, and a run with   *)
(* no clock fault is asleep infinitely often.                              *)
(***************************************************************************)
ClockFault ==
    \/ rtcFound = "no"
    \/ now # NoTime /\ (now.year < 2010 \/ now.year > 2100)

C8_StorageFaultsNeverFatal ==
    /\ [](pc = "halt" => ClockFault)
    /\ [](pc = "l_led" => <>(pc = "l_sleep" \/ ClockFault))
    /\ (<>ClockFault \/ []<>(pc = "l_sleep"))

C8_Witness ==
    /\ pc = "l_sleep" /\ cardOk = "failed"
    /\ logCsv = <<>> /\ datalogCsv = <<>>
    /\ Has("SD.open(datalog.csv) failed")

(***************************************************************************)
(* C9: both relay outputs carry the same level except between the write to *)
(* the first and the write to the second, and every write to the first is  *)
(* followed at once by the same write to the second.                       *)
(***************************************************************************)
C9_RelaysDrivenTogether ==
    /\ pc \notin {"s_relay2", "l_relay2_on", "l_relay2_off"} => relay1 = relay2
    /\ \A i \in 1..Len(calls) :
          /\ (calls[i] = "digitalWrite(relayOutputPin1, HIGH)" /\ i < Len(calls)) =>
                calls[i + 1] = "digitalWrite(relayOutputPin2, HIGH)"
          /\ (calls[i] = "digitalWrite(relayOutputPin1, LOW)" /\ i < Len(calls)) =>
                calls[i + 1] = "digitalWrite(relayOutputPin2, LOW)"

C9_Witness == pc = "l_hold" /\ relay1 = "HIGH" /\ relay2 = "HIGH"

(***************************************************************************)
(* C10: every line of log.csv starts with a 19-character timestamp         *)
(* YYYY-MM-DDTHH:MM:SS followed by a space and the event text.             *)
(***************************************************************************)
IsDigits(s) ==
    \A i \in 1..Len(s) :
       SubSeq(s, i, i) \in {"0", "1", "2", "3", "4", "5", "6", "7", "8", "9"}

IsTimestamp(s) ==
    /\ Len(s) = 19
    /\ IsDigits(SubSeq(s, 1, 4)) /\ SubSeq(s, 5, 5) = "-"
    /\ IsDigits(SubSeq(s, 6, 7)) /\ SubSeq(s, 8, 8) = "-"
    /\ IsDigits(SubSeq(s, 9, 10)) /\ SubSeq(s, 11, 11) = "T"
    /\ IsDigits(SubSeq(s, 12, 13)) /\ SubSeq(s, 14, 14) = ":"
    /\ IsDigits(SubSeq(s, 15, 16)) /\ SubSeq(s, 17, 17) = ":"
    /\ IsDigits(SubSeq(s, 18, 19))

TimestampFirst(line) ==
    /\ Len(line) > 20
    /\ IsTimestamp(SubSeq(line, 1, 19))
    /\ SubSeq(line, 20, 20) = " "

C10_EveryLogLineTimestampFirst ==
    \A i \in 1..Len(logCsv) : TimestampFirst(logCsv[i])

(***************************************************************************)
(* The two pure functions of the sketch applied on their own: one call of  *)
(* map() as at line 178 on any raw reading, or one call of get_time_stamp  *)
(* on any field combination.                                               *)
(***************************************************************************)
RawReadings == 0..RawMax

ValidTimes ==
    { DT(y, mo, d, h, mi, s) :
        y \in {2010, 2021, 2100}, mo \in {1, 3, 12}, d \in {1, 9, 31},
        h \in {0, 7, 19, 23}, mi \in {0, 5, 59}, s \in {0, 3, 59} }

FnInit ==
    /\ pc = "f_idle"
    /\ relay1 = "Z" /\ relay2 = "Z" /\ led = "Z"
    /\ lowPower = FALSE
    /\ cardOk = "unknown"
    /\ rtcFound = "unknown"
    /\ logFile = FALSE /\ dataFile = FALSE
    /\ now = NoTime /\ timeStamp = "" /\ fileLine = ""
    /\ sensorData = NoInt /\ moisture = NoInt /\ temp = NoInt
    /\ logCsv = <<>> /\ datalogCsv = <<>>
    /\ calls = <<>>
    /\ shutdowns = 0
    /\ overrunKept \in BOOLEAN

\* line 178 on its own
FnMap ==
    /\ pc = "f_idle"
    /\ \E r \in RawReadings :
          /\ sensorData' = r
          /\ moisture' = map(r, MapInMin, MapInMax, MapOutMin, MapOutMax)
    /\ pc' = "f_mapped"
    /\ UNCHANGED <<pins, handles, now, timeStamp, temp, fileLine, streams, boot,
                   calls, counters>>

\* lines 233-238 on their own
FnStamp ==
    /\ pc = "f_idle"
    /\ \E t \in ValidTimes \cup ClockReadings :
          /\ now' = t
          /\ timeStamp' = get_time_stamp(t)
    /\ pc' = "f_stamped"
    /\ UNCHANGED <<pins, handles, sensorData, moisture, temp, fileLine, streams,
                   boot, calls, counters>>

FnNext == FnMap \/ FnStamp

FnSpec == FnInit /\ [][FnNext]_vars

(***************************************************************************)
(* C11: no File is open when the controller enters its sleep or is halted, *)
(* and no File is open when another one is about to be opened.             *)
(***************************************************************************)
OpenPcs == {"s_open", "l_fault_open", "l_data_open", "l_log_open"}

C11_NoDanglingHandle ==
    /\ pc \in {"l_sleep", "halt"} => (~logFile /\ ~dataFile)
    /\ pc \in OpenPcs => (~logFile /\ ~dataFile)

(***************************************************************************)
(* C12: the relay outputs are active-low: setup leaves both relay pins     *)
(* HIGH, the level after each actuation is HIGH, and the level during the  *)
(* hold that follows "Valve on" is LOW.                                    *)
(***************************************************************************)
C12_RelayActiveLow ==
    /\ pc \in (SetupPcs \ {"s_relay1", "s_relay2"}) =>
          relay1 = "HIGH" /\ relay2 = "HIGH"
    /\ pc \in {"l_log_off", "l_sleep"} => relay1 = "HIGH" /\ relay2 = "HIGH"
    /\ pc = "l_hold" => relay1 = "LOW" /\ relay2 = "LOW"

(***************************************************************************)
(* C13: log.csv and datalog.csv are append-only: every step leaves each    *)
(* stream equal to its previous content followed by zero or more complete  *)
(* lines; no existing line is modified, truncated or removed.              *)
(***************************************************************************)
IsPrefix(s, t) == Len(s) <= Len(t) /\ SubSeq(t, 1, Len(s)) = s
StartsWith(line, head) ==
    Len(line) >= Len(head) /\ SubSeq(line, 1, Len(head)) = head
EndsWith(line, tail) ==
    Len(line) >= Len(tail)
    /\ SubSeq(line, Len(line) - Len(tail) + 1, Len(line)) = tail

\* a whole event line of log.csv, as one println writes it
CompleteLogLine(line) ==
    \/ line = "Could not find RTC. Shutting down."
    \/ line = "There was an error with the RTC. Reset device to retry. Shutting down..."
    \/ StartsWith(line, " Setup complete! ") /\ Len(line) > Len(" Setup complete! ")
    \/ EndsWith(line, " Valve on") /\ Len(line) > Len(" Valve on")
    \/ EndsWith(line, " Valve off") /\ Len(line) > Len(" Valve off")

\* a whole record of datalog.csv: time stamp, moisture(raw), temperature
CompleteDataLine(line) ==
    \E r \in SensorReadings, c \in TempReadings :
       /\ EndsWith(line, ", " \o IntToStr(map(r, MapInMin, MapInMax, MapOutMin, MapOutMax))
                          \o "(" \o IntToStr(r) \o "), " \o IntToStr(c))
       /\ Len(line) > Len(", " \o IntToStr(map(r, MapInMin, MapInMax, MapOutMin, MapOutMax))
                          \o "(" \o IntToStr(r) \o "), " \o IntToStr(c))

AppendsOnly ==
    /\ IsPrefix(logCsv, logCsv')
    /\ IsPrefix(datalogCsv, datalogCsv')
    /\ \A i \in (Len(logCsv) + 1)..Len(logCsv') : CompleteLogLine(logCsv'[i])
    /\ \A i \in (Len(datalogCsv) + 1)..Len(datalogCsv') :
          CompleteDataLine(datalogCsv'[i])

C13_StreamsAppendOnly == [][AppendsOnly]_vars

\* two cycles' records are in datalog.csv although storage was unavailable
\* when setup() opened log.csv
C13_Witness ==
    /\ Len(datalogCsv) = 2
    /\ logCsv = <<>>
    /\ pc = "l_sleep"

(***************************************************************************)
(* C14: the moisture percentage is the linear map of the raw reading from  *)
(* [1024, 467] onto [0, 100] with the quotient truncated toward zero:      *)
(* 1024 gives 0, 467 gives 100, 745 and 746 give 50 within rounding, a     *)
(* larger reading never gives a larger percentage, and readings outside    *)
(* the domain give percentages outside [0, 100].                           *)
(***************************************************************************)
Abs(n) == IF n < 0 THEN 0 - n ELSE n

\* q is n / d truncated toward zero
IsTruncatedQuotient(q, n, d) ==
    /\ Abs(q) * Abs(d) <= Abs(n)
    /\ Abs(n) < (Abs(q) + 1) * Abs(d)
    /\ q > 0 => ((n > 0) = (d > 0))
    /\ q < 0 => ((n > 0) # (d > 0))

C14_MoistureLinearMap ==
    pc = "f_mapped" =>
       /\ IsTruncatedQuotient(moisture, (sensorData - 1024) * 100, 467 - 1024)
       /\ sensorData = 1024 => moisture = 0
       /\ sensorData = 467 => moisture = 100
       /\ sensorData \in {745, 746} => moisture \in {49, 50}
       /\ \A r2 \in RawReadings :
             sensorData <= r2 =>
                moisture >= map(r2, MapInMin, MapInMax, MapOutMin, MapOutMax)
       \* one whole percent beyond either end of the domain
       /\ (sensorData - 1024) * 100 >= 557 => moisture < 0
       /\ (467 - sensorData) * 100 >= 557 => moisture > 100

C14_Witness ==
    /\ pc = "f_mapped"
    /\ sensorData = 1100
    /\ moisture = -13

(***************************************************************************)
(* C15: for every valid field combination get_time_stamp returns the       *)
(* 19-character text YYYY-MM-DDTHH:MM:SS, every field zero-padded, nothing *)
(* after the seconds; (2021,3,9,19,5,3) gives 2021-03-09T19:05:03; the     *)
(* same time formatted again gives the same text.                          *)
(***************************************************************************)
DigitVal(ch) ==
    CASE ch = "0" -> 0 [] ch = "1" -> 1 [] ch = "2" -> 2 [] ch = "3" -> 3
      [] ch = "4" -> 4 [] ch = "5" -> 5 [] ch = "6" -> 6 [] ch = "7" -> 7
      [] ch = "8" -> 8 [] ch = "9" -> 9

RECURSIVE StrToNat(_)
StrToNat(str) ==
    IF Len(str) = 0 THEN 0
    ELSE 10 * StrToNat(SubSeq(str, 1, Len(str) - 1))
           + DigitVal(SubSeq(str, Len(str), Len(str)))

ValidFields(t) ==
    /\ t.year \in 2010..2100 /\ t.month \in 1..12 /\ t.day \in 1..31
    /\ t.hour \in 0..23 /\ t.minute \in 0..59 /\ t.second \in 0..59

C15_TimeStampFormat ==
    (pc = "f_stamped" /\ ValidFields(now)) =>
       /\ IsTimestamp(timeStamp)
       /\ StrToNat(SubSeq(timeStamp, 1, 4)) = now.year
       /\ StrToNat(SubSeq(timeStamp, 6, 7)) = now.month
       /\ StrToNat(SubSeq(timeStamp, 9, 10)) = now.day
       /\ StrToNat(SubSeq(timeStamp, 12, 13)) = now.hour
       /\ StrToNat(SubSeq(timeStamp, 15, 16)) = now.minute
       /\ StrToNat(SubSeq(timeStamp, 18, 19)) = now.second
       /\ now = DT(2021, 3, 9, 19, 5, 3) => timeStamp = "2021-03-09T19:05:03"
       /\ get_time_stamp(now) = timeStamp

(***************************************************************************)
(* C16: once both relay outputs are energized the only thing the           *)
(* controller does before de-energizing both is the hold: no sensor read,  *)
(* clock read, storage operation, fault check or sleep comes in between,   *)
(* and every energize is eventually followed by the de-energize of both    *)
(* outputs before the cycle's sleep.                                       *)
(***************************************************************************)
BothEnergized == relay1 = Energized /\ relay2 = Energized
BothDeEnergized == relay1 = DeEnergized /\ relay2 = DeEnergized

\* position in calls of this cycle's second energizing write, 0 if none
EnergizedAt ==
    LET hits == {i \in 1..Len(calls) : calls[i] = "digitalWrite(relayOutputPin2, HIGH)"}
    IN  IF hits = {} THEN 0 ELSE CHOOSE i \in hits : \A j \in hits : j <= i

HoldThenClose ==
    <<"delay(valveOnTimer)", "digitalWrite(relayOutputPin1, LOW)",
      "digitalWrite(relayOutputPin2, LOW)">>

NothingBetweenHoldAndClose ==
    EnergizedAt > 0 =>
       LET after == SubSeq(calls, EnergizedAt + 1, Len(calls))
       IN  IF Len(after) <= 3
           THEN after = SubSeq(HoldThenClose, 1, Len(after))
           ELSE SubSeq(after, 1, 3) = HoldThenClose

HoldStep ==
    /\ BothEnergized =>
          /\ UNCHANGED <<led, handles, locals, streams, boot>>
          /\ \/ /\ calls' = Append(calls, "delay(valveOnTimer)")
                /\ UNCHANGED <<relay1, relay2>>
             \/ /\ calls' = Append(calls, "digitalWrite(relayOutputPin1, LOW)")
                /\ relay1' = DeEnergized
    /\ (relay1 = DeEnergized /\ relay2 = Energized) =>
          /\ UNCHANGED <<led, relay1, handles, locals, streams, boot>>
          /\ relay2' = DeEnergized

C16_HoldEndsInClose ==
    /\ [](NothingBetweenHoldAndClose)
    /\ [](pc = "l_sleep" => BothDeEnergized)
    /\ [][HoldStep]_vars
    /\ (BothEnergized ~> BothDeEnergized)

\* a cycle that energized, held and de-energized, now at its sleep
C16_Witness ==
    /\ pc = "l_sleep"
    /\ ValveCalls = FullActuation
    /\ BothDeEnergized

(***************************************************************************)
(* C17: every time stamp recorded in log.csv or datalog.csv, the ones of   *)
(* the setup-complete, Valve on and Valve off events included, has a year  *)
(* within 2010..2100.                                                      *)
(***************************************************************************)
\* the lines of log.csv that carry a time stamp, and the year they carry
IsSetupLine(line) == StartsWith(line, " Setup complete! ")
IsValveLine(line) == EndsWith(line, " Valve on") \/ EndsWith(line, " Valve off")

StampYear(line) ==
    IF IsSetupLine(line)
    THEN StrToNat(SubSeq(line, Len(" Setup complete! ") + 1, Len(" Setup complete! ") + 4))
    ELSE StrToNat(SubSeq(line, 1, 4))

C17_RecordedYearsPlausible ==
    /\ \A i \in 1..Len(logCsv) :
          (IsSetupLine(logCsv[i]) \/ IsValveLine(logCsv[i])) =>
             StampYear(logCsv[i]) \in 2010..2100
    /\ \A i \in 1..Len(datalogCsv) : StampYear(datalogCsv[i]) \in 2010..2100

(***************************************************************************)
(* C18: a cycle that passes the year test opens datalog.csv exactly once,  *)
(* before the irrigation decision and whatever that decision is; the       *)
(* stream grows by one line, the cycle's own record, if the open succeeded *)
(* and by none if it failed; no other step and no later cycle adds a line. *)
(***************************************************************************)
Count(c) == Len(SelectSeq(calls, LAMBDA x : x = c))
DataOpenAttempts ==
    Count("SD.open(datalog.csv)") + Count("SD.open(datalog.csv) failed")

BeforeDataOpenPcs == {"l_sample", "l_temp", "l_data_open"}
AfterDataWritePcs == ValidatedPcs \ (BeforeDataOpenPcs \cup {"l_data_write"})

OneDataAttempt ==
    /\ pc \in BeforeDataOpenPcs => DataOpenAttempts = 0
    /\ pc \in (ValidatedPcs \ BeforeDataOpenPcs) => DataOpenAttempts = 1
    \* calls holds the calls since loop() was entered, from "l_led" on
    /\ pc \in ({"l_led", "l_now", "l_check"} \cup FaultPcs) \/ RuntimeHalt =>
          DataOpenAttempts = 0 /\ Count("dataFile.println") = 0
    /\ pc \in AfterDataWritePcs =>
          Count("dataFile.println") = Count("SD.open(datalog.csv)")
    \* the attempt is over before the decision and before any valve call
    /\ pc \in {"l_data_open", "l_data_write", "l_eval"} => ValveCalls = <<>>

DataStep ==
    /\ datalogCsv' # datalogCsv =>
          /\ pc = "l_data_write" /\ dataFile
          /\ datalogCsv' = Append(datalogCsv, fileLine)
          /\ StartsWith(fileLine, timeStamp) /\ timeStamp = get_time_stamp(now)
    /\ pc = "l_data_write" =>
          Len(datalogCsv') = Len(datalogCsv) + (IF dataFile THEN 1 ELSE 0)
    \* the decision is taken with or without a record
    /\ pc = "l_eval" =>
          pc' = IF DueAsClaimed THEN "l_log_open" ELSE "l_sleep"

C18_OneDataRecordPerCycle == [](OneDataAttempt) /\ [][DataStep]_vars

\* an earlier cycle wrote its record; this cycle's open failed and the cycle
\* reached its sleep without a second attempt
C18_Witness ==
    /\ pc = "l_sleep"
    /\ Has("SD.open(datalog.csv) failed")
    /\ Len(datalogCsv) = 1

(***************************************************************************)
(* C19: the characters get_time_stamp's format writes, plus the            *)
(* terminator, fit the buffer it formats into.                             *)
(***************************************************************************)
C19_BufferFits ==
    pc = "f_stamped" => Len(FormatTime(now)) + 1 <= TempStringSize

(***************************************************************************)
(* C20: in log.csv "Valve on" and "Valve off" come in pairs: a cycle       *)
(* writes both, the second directly after the first, or neither; the       *)
(* valve events alternate starting with "Valve on", and while the          *)
(* controller is asleep or halted the last one is never "Valve on".        *)
(***************************************************************************)
IsValveOn(line) == EndsWith(line, " Valve on")
IsValveOff(line) == EndsWith(line, " Valve off")

\* the open half of a pair is the last line, and only during the actuation
ActuationPcs == {"l_relay1_on", "l_relay2_on", "l_hold", "l_relay1_off",
                 "l_relay2_off", "l_log_off"}

C20_ValveEventsPaired ==
    /\ \A i \in 1..Len(logCsv) :
          /\ IsValveOff(logCsv[i]) => (i > 1 /\ IsValveOn(logCsv[i - 1]))
          /\ IsValveOn(logCsv[i]) =>
                IF i < Len(logCsv)
                THEN IsValveOff(logCsv[i + 1])
                ELSE pc \in ActuationPcs /\ logFile
    \* neither half without the other: a cycle without "Valve on" is at its
    \* closing entry with no handle to write "Valve off" through
    /\ (pc = "l_log_off" /\ logFile) =>
          (Len(logCsv) > 0 /\ IsValveOn(logCsv[Len(logCsv)]))

\* asleep after a cycle that wrote the pair
C20_Witness ==
    /\ pc = "l_sleep"
    /\ Len(logCsv) >= 2
    /\ IsValveOn(logCsv[Len(logCsv) - 1])
    /\ IsValveOff(logCsv[Len(logCsv)])

====
